---- MODULE Spec2Model ----
(***************************************************************************)
(* XTEA block cipher (xtea4/__init__.py): the round function _encrypt /    *)
(* _decrypt and the XTEACipher mode engine (ECB, CBC, CFB, OFB, CTR).      *)
(*                                                                         *)
(* Python integers are unbounded.  A Python int x is represented here by   *)
(* the pair <<h, l>> with x = h * 65536 + l, 0 <= l < 65536 and h any      *)
(* integer (negative for a negative x, as in two's complement).  A byte    *)
(* string is a sequence of numbers 0..255.                                 *)
(***************************************************************************)
EXTENDS Integers, Sequences, FiniteSets, TLC

\* the value of a one-element set {v}: "x == v" with v computed once
Only(S) == CHOOSE v \in S : TRUE

\* ------------------------------------------------------------------------
\* Python integer arithmetic on <<h, l>> pairs
\* ------------------------------------------------------------------------

Half == 65536

Norm(h, l) == <<h + (l \div Half), l % Half>>

Add(a, b) == Norm(a[1] + b[1], a[2] + b[2])

Sub(a, b) == Norm(a[1] - b[1], a[2] - b[2])

\* x << 4
Shl4(a) == Norm(a[1] * 16, a[2] * 16)

\* x >> 5 (x >= 0)
Shr5(a) == <<a[1] \div 32, (a[1] % 32) * 2048 + (a[2] \div 32)>>

\* x ^ y bit by bit (x, y >= 0)
RECURSIVE XorBits(_, _)
XorBits(x, y) ==
    IF x = 0 THEN y
    ELSE IF y = 0 THEN x
    ELSE ((x + y) % 2) + 2 * XorBits(x \div 2, y \div 2)

\* the same on 4-bit digits, as a table
XorNib == [x \in 0..15 |-> [y \in 0..15 |-> XorBits(x, y)]]

\* digit i of x in base 16
Nib(x, i) == (x \div (16 ^ i)) % 16

\* x ^ y digit by digit (0 <= x, y < 2^31)
XorNat(x, y) ==
    XorNib[Nib(x, 0)][Nib(y, 0)]
    + 16 * XorNib[Nib(x, 1)][Nib(y, 1)]
    + 256 * XorNib[Nib(x, 2)][Nib(y, 2)]
    + 4096 * XorNib[Nib(x, 3)][Nib(y, 3)]
    + 65536 * XorNib[Nib(x, 4)][Nib(y, 4)]
    + 1048576 * XorNib[Nib(x, 5)][Nib(y, 5)]
    + 16777216 * XorNib[Nib(x, 6)][Nib(y, 6)]
    + 268435456 * XorNib[Nib(x, 7)][Nib(y, 7)]

\* x ^ y (x, y >= 0)
Xor(a, b) == <<XorNat(a[1], b[1]), XorNat(a[2], b[2])>>

\* a mask one bit too wide: x & 0x1ffffffff
AndMaskWide(a) == <<a[1] % (2 * Half), a[2]>>

\* x & 0xffffffff
AndMask(a) == <<a[1] % Half, a[2]>>

\* x * n for the int n, 0 <= n < 32768
MulNat(a, n) == Norm(a[1] * n, a[2] * n)

\* 0x9e3779b9
delta == <<40503, 31161>>

\* ------------------------------------------------------------------------
\* struct.pack / struct.unpack of 32-bit words, endian "!" (big) or "<"
\* ------------------------------------------------------------------------

unpackL(endian, s, i) ==
    IF endian = "<"
    THEN <<s[i + 3] * 256 + s[i + 2], s[i + 1] * 256 + s[i]>>
    ELSE <<s[i] * 256 + s[i + 1], s[i + 2] * 256 + s[i + 3]>>

packL(endian, w) ==
    IF endian = "<"
    THEN <<w[2] % 256, w[2] \div 256, w[1] % 256, w[1] \div 256>>
    ELSE <<w[1] \div 256, w[1] % 256, w[2] \div 256, w[2] % 256>>

\* ------------------------------------------------------------------------
\* _encrypt / _decrypt: one block
\* ------------------------------------------------------------------------

\* ((v << 4 ^ v >> 5) + v) ^ (sum + k[i]), no mask applied
Mix(v, sum, ki) == Xor(Add(Xor(Shl4(v), Shr5(v)), v), Add(sum, ki))

\* k[sum & 3]
KeyLo(k, sum) == k[(sum[2] % 4) + 1]

\* a slip in the shift: k[sum >> 10 & 3]
KeyHiShift10(k, sum) == k[((sum[2] \div 1024) % 4) + 1]

\* k[sum >> 11 & 3]
KeyHi(k, sum) == k[((sum[2] \div 2048) % 4) + 1]

\* one pass of the loop body of _encrypt on the state <<v0, v1, sum>>
EncCycle(k, st) ==
    LET v0 == AndMask(Add(st[1], Mix(st[2], st[3], KeyLo(k, st[3]))))
        sum == AndMask(Add(st[3], delta))
        v1 == AndMask(Add(st[2], Mix(v0, sum, KeyHi(k, sum))))
    IN <<v0, v1, sum>>

\* a slip in the order: sum is decremented before v1 is undone
DecCycleSumFirst(k, st) ==
    LET sum == AndMask(Sub(st[3], delta))
        v1 == AndMask(Sub(st[2], Mix(st[1], sum, KeyHi(k, sum))))
        v0 == AndMask(Sub(st[1], Mix(v1, sum, KeyLo(k, sum))))
    IN <<v0, v1, sum>>

\* one pass of the loop body of _decrypt on the state <<v0, v1, sum>>
DecCycle(k, st) ==
    LET v1 == AndMask(Sub(st[2], Mix(st[1], st[3], KeyHi(k, st[3]))))
        sum == AndMask(Sub(st[3], delta))
        v0 == AndMask(Sub(st[1], Mix(v1, sum, KeyLo(k, sum))))
    IN <<v0, v1, sum>>

\* for round in range(n): n passes of the loop body, run as the first n \div 2
\* passes and then the rest (the recursion stays shallow)
RECURSIVE EncLoop(_, _, _)
EncLoop(k, st, n) ==
    IF n <= 0 THEN st
    ELSE IF n = 1 THEN EncCycle(k, st)
    ELSE Only({ EncLoop(k, mid, n - (n \div 2)) :
                mid \in {EncLoop(k, st, n \div 2)} })

RECURSIVE DecLoop(_, _, _)
DecLoop(k, st, n) ==
    IF n <= 0 THEN st
    ELSE IF n = 1 THEN DecCycle(k, st)
    ELSE Only({ DecLoop(k, mid, n - (n \div 2)) :
                mid \in {DecLoop(k, st, n \div 2)} })

unpackKey(endian, key) ==
    <<unpackL(endian, key, 1), unpackL(endian, key, 5),
      unpackL(endian, key, 9), unpackL(endian, key, 13)>>

_encrypt(key, block, n, endian) ==
    LET k == unpackKey(endian, key)
        r == EncLoop(k, <<unpackL(endian, block, 1), unpackL(endian, block, 5),
                          <<0, 0>> >>, n)
    IN packL(endian, r[1]) \o packL(endian, r[2])

_decrypt(key, block, n, endian) ==
    LET k == unpackKey(endian, key)
        r == DecLoop(k, <<unpackL(endian, block, 1), unpackL(endian, block, 5),
                          AndMask(MulNat(delta, n))>>, n)
    IN packL(endian, r[1]) \o packL(endian, r[2])

\* xor_strings(s, t): zip stops at the shorter string
xor_strings(s, t) ==
    [i \in 1..(IF Len(s) < Len(t) THEN Len(s) ELSE Len(t)) |-> XorNat(s[i], t[i])]

\* ------------------------------------------------------------------------
\* Module constants and the values of keyword arguments
\* ------------------------------------------------------------------------

MODE_ECB == 1
MODE_CBC == 2
MODE_CFB == 3
MODE_PGP == 4
MODE_OFB == 5
MODE_CTR == 6

key_size == 128

\* XTEACipher.block_size
block_size == 8

\* None where a number is expected (kwargs.get("mode") of an absent mode)
NoneInt == -1

\* None where a byte string is expected (the class attribute IV = None)
NoneBytes == <<-1>>

\* counter objects: None, an object that is not callable, a callable
NoneCounter == "None"
IntCounter == "int"
CallableCounter == "callable"

callable(c) == c = CallableCounter

\* the caller's counter callable: the value its i-th call returns (i >= 1)
counter_call(i) == <<0, 0, 0, 1, 0, 0, 0, i % 256>>

\* kwargs.get(name, default): kwargs is a function on the names given
get(kwargs, name, default) ==
    IF name \in DOMAIN kwargs THEN kwargs[name] ELSE default

NoErr == <<"", "">>

\* a generator that has not produced anything yet
NewGen == [buf |-> <<>>, idx |-> 0]

NoEngine == [key |-> <<>>, mode |-> 0, IV |-> NoneBytes, counter |-> NoneCounter,
             rounds |-> 0, endian |-> "", gen |-> NewGen]

\* ------------------------------------------------------------------------
\* XTEACipher.__init__
\* ------------------------------------------------------------------------

\* no default: an absent mode stays None
default_modeNone(mode0) == mode0

\* if self.mode == None: self.mode = MODE_ECB (with a warning)
default_mode(mode0) == IF mode0 = NoneInt THEN MODE_ECB ELSE mode0

\* the mode is one the engine implements
mode_exists(mode) ==
    mode \in {MODE_ECB, MODE_CBC, MODE_CFB, MODE_OFB, MODE_CTR}

\* the IV's length is not checked
iv_missingNoLength(mode, IV) ==
    mode \in {MODE_CBC, MODE_CFB, MODE_OFB} /\ IV = NoneBytes

\* cbc, cfb and ofb need an iv
iv_missing(mode, IV) ==
    /\ mode \in {MODE_CBC, MODE_CFB, MODE_OFB}
    /\ (IV = NoneBytes \/ Len(IV) # block_size)

counter_missing(mode, counter) == mode = MODE_CTR /\ ~callable(counter)

\* the result of new(key, **kwargs): the exception raised (or NoErr), the
\* engine built, and whether warnings.warn("Using implicit ECB!") was called
__init__(key, kwargs) ==
    LET mode0 == get(kwargs, "mode", NoneInt)
        mode == default_mode(mode0)
        IV == get(kwargs, "IV", NoneBytes)
        counter == get(kwargs, "counter", NoneCounter)
        warned == mode0 = NoneInt /\ mode # mode0
        failed(cls, msg, w) == [err |-> <<cls, msg>>, self |-> NoEngine, warned |-> w]
    IN IF Len(key) # key_size \div 8
       THEN failed("ValueError", "Key must be 128 bit long", FALSE)
       ELSE IF ~mode_exists(mode)
       THEN failed("NotImplementedError",
                   "The selected mode of operation does not exist.", warned)
       ELSE IF iv_missing(mode, IV)
       THEN failed("ValueError",
                   "CBC, CFB and OFB need an IV with a length of 8 bytes!",
                   warned)
       ELSE IF counter_missing(mode, counter)
       THEN failed("ValueError", "CTR mode needs a callable counter", warned)
       ELSE [err |-> NoErr,
             self |-> [key |-> key, mode |-> mode, IV |-> IV,
                       counter |-> counter,
                       rounds |-> get(kwargs, "rounds", 64),
                       endian |-> get(kwargs, "endian", "!"),
                       gen |-> NewGen],
             warned |-> warned]

\* ------------------------------------------------------------------------
\* keygen and _stream (OFB, CTR).  A call works on w = [self, ctr, rf]: the
\* engine, the number of calls made to its counter, and the number of
\* round-function evaluations made for it.
\* ------------------------------------------------------------------------

\* a slip in the bound: the last byte of each refill is never yielded
keygenDropsLast(w) ==
    LET self == w.self
    IN IF self.gen.idx + 1 < Len(self.gen.buf)
       THEN [self |-> [self EXCEPT !.gen.idx = @ + 1], ctr |-> w.ctr,
             rf |-> w.rf, byte |-> self.gen.buf[self.gen.idx + 1]]
       ELSE LET isCtr == self.mode = MODE_CTR
                src == IF isCtr THEN counter_call(w.ctr + 1) ELSE self.IV
                iv == _encrypt(self.key, src, self.rounds \div 2, "!")
            IN [self |-> [self EXCEPT !.IV = iv,
                                      !.gen = [buf |-> iv, idx |-> 1]],
                ctr |-> IF isCtr THEN w.ctr + 1 ELSE w.ctr,
                rf |-> w.rf + 1, byte |-> iv[1]]

\* the CTR refill keeps what the counter returned in place of the counter
keygenStoresCounter(w) ==
    LET self == w.self
    IN IF self.gen.idx < Len(self.gen.buf)
       THEN [self |-> [self EXCEPT !.gen.idx = @ + 1], ctr |-> w.ctr,
             rf |-> w.rf, byte |-> self.gen.buf[self.gen.idx + 1]]
       ELSE LET isCtr == self.mode = MODE_CTR
                src == IF isCtr THEN counter_call(w.ctr + 1) ELSE self.IV
                iv == _encrypt(self.key, src, self.rounds \div 2, "!")
            IN [self |-> [self EXCEPT !.IV = iv,
                                      !.counter = IF isCtr THEN "bytes" ELSE @,
                                      !.gen = [buf |-> iv, idx |-> 1]],
                ctr |-> IF isCtr THEN w.ctr + 1 ELSE w.ctr,
                rf |-> w.rf + 1, byte |-> iv[1]]

\* next(self._keygen): resumes the generator; the result carries the byte
\* it yields.  _encrypt is called without endian, so with its default "!".
keygen(w) ==
    LET self == w.self
    IN IF self.gen.idx < Len(self.gen.buf)
       THEN [self |-> [self EXCEPT !.gen.idx = @ + 1], ctr |-> w.ctr,
             rf |-> w.rf, byte |-> self.gen.buf[self.gen.idx + 1]]
       ELSE LET isCtr == self.mode = MODE_CTR
                src == IF isCtr THEN counter_call(w.ctr + 1) ELSE self.IV
                iv == _encrypt(self.key, src, self.rounds \div 2, "!")
            IN [self |-> [self EXCEPT !.IV = iv,
                                      !.gen = [buf |-> iv, idx |-> 1]],
                ctr |-> IF isCtr THEN w.ctr + 1 ELSE w.ctr,
                rf |-> w.rf + 1, byte |-> iv[1]]

\* zip(map(b_ord, data), self._keygen) from data[i] on: the data byte is
\* taken first, so the generator is not resumed once the data is exhausted
RECURSIVE StreamLoop(_, _, _, _)
StreamLoop(w, data, i, out) ==
    IF i > Len(data)
    THEN [self |-> w.self, ctr |-> w.ctr, rf |-> w.rf, out |-> out,
          err |-> NoErr, steps |-> <<>>]
    ELSE Only({ StreamLoop([self |-> g.self, ctr |-> g.ctr, rf |-> g.rf],
                           data, i + 1, Append(out, XorNat(data[i], g.byte))) :
                g \in {keygen(w)} })

\* zip(self._keygen, data): the generator is resumed once more, after the
\* last data byte, before zip finds the data exhausted
_streamKeygenFirst(w, data) ==
    Only({ Only({ [r EXCEPT !.self = g.self, !.ctr = g.ctr, !.rf = g.rf] :
                  g \in {keygen([self |-> r.self, ctr |-> r.ctr, rf |-> r.rf])} }) :
           r \in {StreamLoop(w, data, 1, <<>>)} })

\* each call starts a new generator: what the last refill left is dropped
_streamNewGenerator(w, data) ==
    StreamLoop([w EXCEPT !.self.gen = NewGen], data, 1, <<>>)

\* the keystream byte is added to the data byte, not XORed with it
_streamAddsKey(w, data) ==
    Only({ [r EXCEPT !.out = [i \in DOMAIN data |->
                                 (data[i] + XorNat(r.out[i], data[i])) % 256]] :
           r \in {StreamLoop(w, data, 1, <<>>)} })

_stream(w, data) == StreamLoop(w, data, 1, <<>>)

\* ------------------------------------------------------------------------
\* _block, encrypt, decrypt (ECB, CBC, CFB)
\* ------------------------------------------------------------------------

\* no check of the length: the trailing bytes are dropped
_blockTruncates(s) ==
    [ok |-> TRUE,
     l |-> [i \in 1..(Len(s) \div block_size) |->
               SubSeq(s, (i - 1) * block_size + 1, i * block_size)]]

\* the list l of blocks, or (ok false) the ValueError raised
_block(s) ==
    IF Len(s) % block_size # 0
    THEN [ok |-> FALSE, l |-> <<>>]
    ELSE [ok |-> TRUE,
          l |-> [i \in 1..(Len(s) \div block_size) |->
                    SubSeq(s, (i - 1) * block_size + 1, i * block_size)]]

LengthError == <<"ValueError", "Input string must be a multiple of blocksize in length">>
ModeError == <<"ValueError", "Unknown mode of operation!">>

\* the ECB branch written as the CBC branch is
EncryptStepEcbChained(self, block) ==
    LET n == self.rounds \div 2
    IN IF self.mode = MODE_ECB /\ self.IV = NoneBytes
       THEN [ok |-> TRUE, ecd |-> _encrypt(self.key, block, n, self.endian),
             IV |-> self.IV]
       ELSE IF self.mode \in {MODE_ECB, MODE_CBC}
       THEN LET xored == xor_strings(self.IV, block)
                c == _encrypt(self.key, xored, n, self.endian)
            IN [ok |-> TRUE, ecd |-> c, IV |-> c]
       ELSE IF self.mode = MODE_CFB
       THEN LET keystream == _encrypt(self.key, self.IV, n, self.endian)
                c == xor_strings(keystream, block)
            IN [ok |-> TRUE, ecd |-> c, IV |-> c]
       ELSE [ok |-> FALSE, ecd |-> <<>>, IV |-> self.IV]

\* CFB keeps the keystream block, not the ciphertext, as the next IV
EncryptStepCfbKeepsKeystream(self, block) ==
    LET n == self.rounds \div 2
    IN IF self.mode = MODE_ECB
       THEN [ok |-> TRUE, ecd |-> _encrypt(self.key, block, n, self.endian),
             IV |-> self.IV]
       ELSE IF self.mode = MODE_CBC
       THEN LET xored == xor_strings(self.IV, block)
                c == _encrypt(self.key, xored, n, self.endian)
            IN [ok |-> TRUE, ecd |-> c, IV |-> c]
       ELSE IF self.mode = MODE_CFB
       THEN LET keystream == _encrypt(self.key, self.IV, n, self.endian)
                c == xor_strings(keystream, block)
            IN [ok |-> TRUE, ecd |-> c, IV |-> keystream]
       ELSE [ok |-> FALSE, ecd |-> <<>>, IV |-> self.IV]

\* the body of encrypt's loop for one block: the output block, the IV the
\* engine holds afterwards, the round-function evaluations made
EncryptStep(self, block) ==
    LET n == self.rounds \div 2
    IN IF self.mode = MODE_ECB
       THEN [ok |-> TRUE, ecd |-> _encrypt(self.key, block, n, self.endian),
             IV |-> self.IV]
       ELSE IF self.mode = MODE_CBC
       THEN LET xored == xor_strings(self.IV, block)
                c == _encrypt(self.key, xored, n, self.endian)
            IN [ok |-> TRUE, ecd |-> c, IV |-> c]
       ELSE IF self.mode = MODE_CFB
       THEN LET keystream == _encrypt(self.key, self.IV, n, self.endian)
                c == xor_strings(keystream, block)
            IN [ok |-> TRUE, ecd |-> c, IV |-> c]
       ELSE [ok |-> FALSE, ecd |-> <<>>, IV |-> self.IV]

\* CBC and CFB keep the plaintext, not the ciphertext, as the next IV
DecryptStepKeepsPlain(self, block) ==
    LET n == self.rounds \div 2
    IN IF self.mode = MODE_ECB
       THEN [ok |-> TRUE, ecd |-> _decrypt(self.key, block, n, self.endian),
             IV |-> self.IV]
       ELSE IF self.mode = MODE_CBC
       THEN LET dec == xor_strings(self.IV,
                                   _decrypt(self.key, block, n, self.endian))
            IN [ok |-> TRUE, ecd |-> dec, IV |-> dec]
       ELSE IF self.mode = MODE_CFB
       THEN LET dec == xor_strings(_encrypt(self.key, self.IV, n, self.endian),
                                   block)
            IN [ok |-> TRUE, ecd |-> dec, IV |-> dec]
       ELSE [ok |-> FALSE, ecd |-> <<>>, IV |-> self.IV]

\* the body of decrypt's loop for one block
DecryptStep(self, block) ==
    LET n == self.rounds \div 2
    IN IF self.mode = MODE_ECB
       THEN [ok |-> TRUE, ecd |-> _decrypt(self.key, block, n, self.endian),
             IV |-> self.IV]
       ELSE IF self.mode = MODE_CBC
       THEN LET decrypted_but_not_xored ==
                    _decrypt(self.key, block, n, self.endian)
            IN [ok |-> TRUE,
                ecd |-> xor_strings(self.IV, decrypted_but_not_xored),
                IV |-> block]
       ELSE IF self.mode = MODE_CFB
       THEN LET keystream == _encrypt(self.key, self.IV, n, self.endian)
            IN [ok |-> TRUE, ecd |-> xor_strings(keystream, block),
                IV |-> block]
       ELSE [ok |-> FALSE, ecd |-> <<>>, IV |-> self.IV]

BlockStep(op, self, block) ==
    IF op = "encrypt" THEN EncryptStep(self, block) ELSE DecryptStep(self, block)

\* for block in blocks, from blocks[i] on.  steps records, per block, the IV
\* the engine held before it, the input block and the output block.
RECURSIVE BlockLoop(_, _, _, _, _, _)
BlockLoop(op, w, blocks, i, out, steps) ==
    IF i > Len(blocks)
    THEN [self |-> w.self, ctr |-> w.ctr, rf |-> w.rf, out |-> out,
          err |-> NoErr, steps |-> steps]
    ELSE Only({ IF ~r.ok
                THEN [self |-> w.self, ctr |-> w.ctr, rf |-> w.rf, out |-> <<>>,
                      err |-> ModeError, steps |-> steps]
                ELSE BlockLoop(op, [self |-> [w.self EXCEPT !.IV = r.IV],
                                    ctr |-> w.ctr, rf |-> w.rf + 1],
                               blocks, i + 1, out \o r.ecd,
                               Append(steps, [op |-> op, iv |-> w.self.IV,
                                              inb |-> blocks[i],
                                              outb |-> r.ecd])) :
                r \in {BlockStep(op, w.self, blocks[i])} })

\* the chaining value is a local of the call: the engine's IV is not updated
CipherLocalIV(op, w, data) ==
    IF w.self.mode \in {MODE_OFB, MODE_CTR}
    THEN _stream(w, data)
    ELSE LET blocks == _block(data)
         IN IF ~blocks.ok
            THEN [self |-> w.self, ctr |-> w.ctr, rf |-> w.rf, out |-> <<>>,
                  err |-> LengthError, steps |-> <<>>]
            ELSE Only({ [r EXCEPT !.self.IV = w.self.IV] :
                        r \in {BlockLoop(op, w, blocks.l, 1, <<>>, <<>>)} })

\* encrypt(self, data) for op = "encrypt", decrypt(self, data) for "decrypt"
Cipher(op, w, data) ==
    IF w.self.mode \in {MODE_OFB, MODE_CTR}
    THEN _stream(w, data)
    ELSE LET blocks == _block(data)
         IN IF ~blocks.ok
            THEN [self |-> w.self, ctr |-> w.ctr, rf |-> w.rf, out |-> <<>>,
                  err |-> LengthError, steps |-> <<>>]
            ELSE BlockLoop(op, w, blocks.l, 1, <<>>, <<>>)

encrypt(w, data) == Cipher("encrypt", w, data)

decrypt(w, data) == Cipher("decrypt", w, data)

\* ------------------------------------------------------------------------
\* The state: two engine objects x and y and what their caller has observed
\* ------------------------------------------------------------------------

Engines == {"x", "y"}

NoCall == [op |-> "", data |-> <<>>, out |-> <<>>, err |-> NoErr,
           pre |-> NoEngine, cin0 |-> <<>>, cout0 |-> <<>>, ctr0 |-> 0,
           rf0 |-> 0, kind0 |-> "", steps |-> <<>>]

NoKwargs == [name \in {} |-> 0]

NotMade == [done |-> FALSE, ok |-> FALSE, key |-> <<>>, kwargs |-> NoKwargs,
            err |-> NoErr, warned |-> FALSE]

NoRF == [op |-> "", key |-> <<>>, block |-> <<>>, n |-> 0, endian |-> "",
         out |-> <<>>]

\* two threads of the caller
Threads == {"a", "b"}

\* a thread that has called nothing yet
NoThread == [pc |-> "idle", e |-> "", op |-> "", data |-> <<>>, blocks |-> <<>>,
             i |-> 0, iv |-> NoneBytes, out |-> <<>>, after |-> {}]

VARIABLES
    eng,    \* eng[e]: the engine object (NoEngine while there is none)
    made,   \* made[e]: the call of new() that built e and how it ended
    ctr,    \* ctr[e]: calls made to e's counter callable
    rf,     \* rf[e]: round-function evaluations made for e
    calls,  \* calls[e]: encrypt/decrypt calls made on e: 0, 1, 2, 3 = more
    kind,   \* kind[e]: "", "encrypt", "decrypt" or "mixed": the calls so far
    cin,    \* cin[e]: the data of the successful calls, concatenated
    cout,   \* cout[e]: their outputs, concatenated
    trace,  \* trace[e]: the block steps of the successful calls
    last,   \* last[e]: the last call on e, with the state before it
    rfv,    \* the last two direct calls of _encrypt / _decrypt
    th      \* th[t]: the call thread t is in, and where in its loop it is

vars == <<eng, made, ctr, rf, calls, kind, cin, cout, trace, last, rfv, th>>

Init ==
    /\ eng = [e \in Engines |-> NoEngine]
    /\ made = [e \in Engines |-> NotMade]
    /\ ctr = [e \in Engines |-> 0]
    /\ rf = [e \in Engines |-> 0]
    /\ calls = [e \in Engines |-> 0]
    /\ kind = [e \in Engines |-> ""]
    /\ cin = [e \in Engines |-> <<>>]
    /\ cout = [e \in Engines |-> <<>>]
    /\ trace = [e \in Engines |-> <<>>]
    /\ last = [e \in Engines |-> NoCall]
    /\ rfv = [cur |-> NoRF, prev |-> NoRF]
    /\ th = [t \in Threads |-> NoThread]

\* e = new(key, **kwargs), once per name
New(e, key, kwargs) ==
    /\ ~made[e].done
    /\ \E r \in {__init__(key, kwargs)} :
          /\ eng' = [eng EXCEPT ![e] = r.self]
          /\ made' = [made EXCEPT ![e] =
                         [done |-> TRUE, ok |-> r.err = NoErr, key |-> key,
                          kwargs |-> kwargs, err |-> r.err, warned |-> r.warned]]
    /\ UNCHANGED <<ctr, rf, calls, kind, cin, cout, trace, last, rfv, th>>

\* bytes an engine may be given in total: bounds the runs, not the program
MaxStream == 9
MaxBlocks == 2

Budget(self) ==
    IF self.mode \in {MODE_OFB, MODE_CTR} THEN MaxStream ELSE MaxBlocks * block_size

NextKind(k, op) == IF k = "" \/ k = op THEN op ELSE "mixed"

\* e.encrypt(data) or e.decrypt(data)
Call(op, e, data) ==
    /\ made[e].ok
    /\ Len(cin[e]) + Len(data) <= Budget(eng[e])
    /\ \E r \in {Cipher(op, [self |-> eng[e], ctr |-> ctr[e], rf |-> rf[e]], data)} :
       LET ok == r.err = NoErr
       IN /\ eng' = [eng EXCEPT ![e] = r.self]
          /\ ctr' = [ctr EXCEPT ![e] = r.ctr]
          /\ rf' = [rf EXCEPT ![e] = r.rf]
          /\ calls' = [calls EXCEPT ![e] = IF @ < 3 THEN @ + 1 ELSE 3]
          /\ kind' = [kind EXCEPT ![e] = IF ok THEN NextKind(@, op) ELSE @]
          /\ cin' = [cin EXCEPT ![e] = IF ok THEN @ \o data ELSE @]
          /\ cout' = [cout EXCEPT ![e] = IF ok THEN @ \o r.out ELSE @]
          /\ trace' = [trace EXCEPT ![e] = @ \o r.steps]
          /\ last' = [last EXCEPT ![e] =
                         [op |-> op, data |-> data, out |-> r.out, err |-> r.err,
                          pre |-> eng[e], cin0 |-> cin[e], cout0 |-> cout[e],
                          ctr0 |-> ctr[e], rf0 |-> rf[e], kind0 |-> kind[e],
                          steps |-> r.steps]]
    /\ UNCHANGED <<made, rfv, th>>

Encrypt(e, data) == Call("encrypt", e, data)

Decrypt(e, data) == Call("decrypt", e, data)

\* ------------------------------------------------------------------------
\* The caller's inputs
\* ------------------------------------------------------------------------

\* the keys of tests/test_vectors.py
Key1 == <<39, 249, 23, 177, 193, 218, 137, 147, 96, 226, 172, 170, 166, 235, 146, 61>>
Key5 == <<222, 173, 190, 239, 222, 173, 190, 239, 222, 173, 190, 239, 222, 173, 190, 239>>

\* "12345678", the IV of the module docstring
IV1 == <<49, 50, 51, 52, 53, 54, 55, 56>>

\* "This is ", the first block of the docstring's text, and pieces of it
P == <<84, 104, 105, 115, 32, 105, 115, 32>>
mS == SubSeq(P, 1, 3)
mT == SubSeq(P, 4, 8)
m1 == <<97>>
\* two messages of 9 bytes, one byte more than a keystream group
m9 == P \o m1
n9 == IV1 \o m1

Modes == {MODE_ECB, MODE_CBC, MODE_CFB, MODE_OFB, MODE_CTR}

\* the valid configurations the engines are used with
Kwargs ==
    { [mode |-> m, IV |-> IV1, counter |-> CallableCounter, rounds |-> 3] :
          m \in Modes }
    \cup
    { [mode |-> m, IV |-> IV1, counter |-> CallableCounter, rounds |-> 4,
       endian |-> "<"] : m \in Modes }
    \cup
    { [mode |-> MODE_ECB, rounds |-> 4] }

\* the data of a call on x: some messages (block-aligned or not), or all
\* that x has returned so far
Msgs(self) ==
    IF self.mode \in {MODE_OFB, MODE_CTR}
    THEN {<<>>, m1, mT, m9}
    ELSE {<<>>, mS, P, P \o mS, P \o P}

XData == Msgs(eng["x"]) \cup {cout["x"]}

\* the data of the call on y: all that x was given, or all that x returned,
\* or (stream modes) another message
YData ==
    {cin["x"], cout["x"]}
        \cup (IF eng["x"].mode \in {MODE_OFB, MODE_CTR} THEN {n9} ELSE {})

\* x is built and used; then y, a fresh engine built with the arguments x was
\* built with, is used once.  (The engines share nothing, so the order of
\* the calls on x relative to those on y does not matter.)
Next ==
    \/ \E kw \in Kwargs : New("x", Key1, kw)
    \/ made["x"].ok /\ New("y", made["x"].key, made["x"].kwargs)
    \/ \E data \in XData : ~made["y"].done /\ Encrypt("x", data)
    \/ \E data \in XData : ~made["y"].done /\ Decrypt("x", data)
    \/ \E data \in YData : calls["y"] = 0 /\ Encrypt("y", data)
    \/ \E data \in YData : calls["y"] = 0 /\ Decrypt("y", data)

Spec == Init /\ [][Next]_vars

\* ------------------------------------------------------------------------
\* Direct calls of the round function
\* ------------------------------------------------------------------------

RFCall(op, key, block, n, endian) ==
    /\ rfv' = [cur |-> [op |-> op, key |-> key, block |-> block, n |-> n,
                        endian |-> endian,
                        out |-> IF op = "encrypt"
                                THEN _encrypt(key, block, n, endian)
                                ELSE _decrypt(key, block, n, endian)],
               prev |-> rfv.cur]
    /\ UNCHANGED <<eng, made, ctr, rf, calls, kind, cin, cout, trace, last, th>>

RFEncrypt(key, block, n, endian) == RFCall("encrypt", key, block, n, endian)

RFDecrypt(key, block, n, endian) == RFCall("decrypt", key, block, n, endian)

\* cycle counts tried besides the default 32
MaxCycles == 2

RFKeys == {Key1, Key5}
RFBlocks == {P, IV1}
RFCycles == 0..MaxCycles \cup {32}
RFEndians == {"!", "<"}

\* two calls: any call, then any call on a block or on what the first returned
NextRF ==
    \E key \in RFKeys, n \in RFCycles, endian \in RFEndians :
        \/ \E block \in RFBlocks :
               rfv.prev.op = "" /\ RFEncrypt(key, block, n, endian)
        \/ \E block \in RFBlocks \cup ({rfv.cur.out} \ {<<>>}) :
               rfv.prev.op = "" /\ RFDecrypt(key, block, n, endian)

SpecRF == Init /\ [][NextRF]_vars

\* ------------------------------------------------------------------------
\* The published vectors, on an engine built as the tests build it
\* ------------------------------------------------------------------------

\* TEST_VECTORS of tests/test_vectors.py
TEST_VECTORS ==
    <<[k |-> <<39, 249, 23, 177, 193, 218, 137, 147, 96, 226, 172, 170, 166, 235, 146, 61>>,
        p |-> <<175, 32, 163, 144, 84, 117, 113, 170>>,
        c |-> <<210, 100, 40, 175, 10, 32, 34, 131>>],
       [k |-> <<49, 65, 89, 38, 83, 88, 151, 147, 35, 132, 98, 100, 51, 131, 39, 149>>,
        p |-> <<2, 136, 65, 151, 22, 147, 153, 55>>,
        c |-> <<70, 226, 0, 125, 88, 187, 194, 234>>],
       [k |-> <<18, 52, 171, 193, 35, 74, 188, 18, 52, 171, 193, 35, 74, 188, 18, 52>>,
        p |-> <<171, 193, 35, 74, 188, 18, 52, 171>>,
        c |-> <<92, 7, 84, 193, 246, 240, 189, 155>>],
       [k |-> <<171, 193, 35, 74, 188, 18, 52, 171, 193, 35, 74, 188, 18, 52, 171, 193>>,
        p |-> <<35, 74, 188, 18, 52, 171, 193, 35>>,
        c |-> <<205, 252, 199, 44, 36, 188, 17, 107>>],
       [k |-> <<222, 173, 190, 239, 222, 173, 190, 239, 222, 173, 190, 239, 222, 173, 190, 239>>,
        p |-> <<222, 173, 190, 239, 222, 173, 190, 239>>,
        c |-> <<250, 242, 140, 181, 9, 64, 192, 224>>],
       [k |-> <<222, 173, 190, 239, 222, 173, 190, 239, 222, 173, 190, 239, 222, 173, 190, 239>>,
        p |-> <<150, 71, 169, 24, 158, 197, 101, 213>>,
        c |-> <<222, 173, 190, 239, 222, 173, 190, 239>>] >>

VecKeys == { TEST_VECTORS[i].k : i \in DOMAIN TEST_VECTORS }
VecData == { TEST_VECTORS[i].p : i \in DOMAIN TEST_VECTORS }
               \cup { TEST_VECTORS[i].c : i \in DOMAIN TEST_VECTORS }

\* new(key) or new(key, mode=MODE_ECB), then one call on a block
NextVec ==
    \/ \E key \in VecKeys, kw \in {NoKwargs, [mode |-> MODE_ECB]} :
           New("x", key, kw)
    \/ \E data \in VecData : calls["x"] = 0 /\ Encrypt("x", data)
    \/ \E data \in VecData : calls["x"] = 0 /\ Decrypt("x", data)

SpecVec == Init /\ [][NextVec]_vars

\* ------------------------------------------------------------------------
\* Construction with any arguments
\* ------------------------------------------------------------------------

\* the keyword arguments named in S, with the values of full
KwOf(S, full) == [name \in S |-> full[name]]

KwNames == {"mode", "IV", "counter", "rounds", "endian"}

\* mode values: the six names, and two numbers that name no mode
ModeArgs == {0, MODE_ECB, MODE_CBC, MODE_CFB, MODE_PGP, MODE_OFB, MODE_CTR, 7}

\* IV values: 8 bytes, 3 bytes, 9 bytes, no bytes
IVArgs == {IV1, mS, P \o m1, <<>>}

AllKwargs ==
    { KwOf(S, [mode |-> m, IV |-> iv, counter |-> c, rounds |-> 3,
               endian |-> "<"]) :
          S \in SUBSET KwNames, m \in ModeArgs, iv \in IVArgs,
          c \in {IntCounter, CallableCounter} }

\* keys of 16, 15, 17 and 0 bytes
NewKeys == {Key1, SubSeq(Key1, 1, 15), Key1 \o m1, <<>>}

NextNew == \E key \in NewKeys, kw \in AllKwargs : New("x", key, kw)

SpecNew == Init /\ [][NextNew]_vars

\* ------------------------------------------------------------------------
\* Properties
\* ------------------------------------------------------------------------

\* the second direct call decrypts, with the key, cycle count and endianness
\* of the first, what the first call encrypted
RFRoundTripCase ==
    /\ rfv.prev.op = "encrypt"
    /\ rfv.cur.op = "decrypt"
    /\ rfv.cur.key = rfv.prev.key
    /\ rfv.cur.n = rfv.prev.n
    /\ rfv.cur.endian = rfv.prev.endian
    /\ rfv.cur.block = rfv.prev.out

\* C1: _decrypt(key, _encrypt(key, b, n, e), n, e) = b for every key, block,
\* cycle count n >= 0 and endianness tried, and _encrypt returns 8 bytes.
C1_BlockRoundTrip ==
    /\ rfv.cur.op # "" => Len(rfv.cur.out) = 8
    /\ RFRoundTripCase => rfv.cur.out = rfv.prev.block

\* the round trip at the default 32 cycles, little-endian, on a block that
\* encryption changed
C1_Witness ==
    /\ RFRoundTripCase
    /\ rfv.cur.n = 32
    /\ rfv.cur.endian = "<"
    /\ rfv.prev.out # rfv.prev.block
    /\ rfv.cur.out = P

\* the engine x was built with only a key, or as the tests build it
VecEngine ==
    /\ made["x"].ok
    /\ made["x"].kwargs \in {NoKwargs, [mode |-> MODE_ECB]}

\* C2: an ECB engine built with only a key runs 64 rounds (32 cycles),
\* big-endian, and for each published vector (k, p, c) built with key k it
\* encrypts p to c and decrypts c to p.
C2_KnownVectors ==
    VecEngine =>
        /\ eng["x"].mode = MODE_ECB
        /\ eng["x"].rounds = 64
        /\ eng["x"].endian = "!"
        /\ \A i \in DOMAIN TEST_VECTORS :
               LET v == TEST_VECTORS[i]
               IN made["x"].key = v.k =>
                     /\ (last["x"].op = "encrypt" /\ last["x"].data = v.p)
                            => (last["x"].err = NoErr /\ last["x"].out = v.c)
                     /\ (last["x"].op = "decrypt" /\ last["x"].data = v.c)
                            => (last["x"].err = NoErr /\ last["x"].out = v.p)

\* the first vector encrypted on an engine built with only a key
C2_Witness ==
    /\ made["x"].ok
    /\ made["x"].kwargs = NoKwargs
    /\ made["x"].key = TEST_VECTORS[1].k
    /\ last["x"].op = "encrypt"
    /\ last["x"].data = TEST_VECTORS[1].p
    /\ last["x"].out = TEST_VECTORS[1].c

StreamModes == {MODE_OFB, MODE_CTR}
BlockModes == {MODE_ECB, MODE_CBC, MODE_CFB}

\* y was built with the arguments x was built with
SameConfig ==
    /\ made["x"].ok /\ made["y"].ok
    /\ made["y"].key = made["x"].key
    /\ made["y"].kwargs = made["x"].kwargs

\* x's only call encrypted m, and y's only call decrypts what x returned
EngineRoundTripCase ==
    /\ SameConfig
    /\ calls["x"] = 1 /\ last["x"].op = "encrypt" /\ last["x"].err = NoErr
    /\ calls["y"] = 1 /\ last["y"].op = "decrypt"
    /\ last["y"].data = last["x"].out

\* C3: in every mode, when engine x encrypts m (block-aligned in ECB, CBC and
\* CFB, of any length in OFB and CTR) and a fresh engine y of the same
\* configuration decrypts the result, y returns m.
C3_EngineRoundTrip ==
    EngineRoundTripCase =>
        /\ last["y"].err = NoErr
        /\ last["y"].out = last["x"].data

\* the round trip of two blocks in CBC
C3_Witness ==
    /\ EngineRoundTripCase
    /\ eng["x"].mode = MODE_CBC
    /\ last["x"].data = P \o P
    /\ last["y"].out = P \o P
    /\ last["x"].out # P \o P

\* x, an OFB engine, has encrypted a text in its first call and is given, in
\* its second call, what it returned, to decrypt
SameInstanceCase ==
    /\ made["x"].ok
    /\ eng["x"].mode = MODE_OFB
    /\ calls["x"] = 2
    /\ last["x"].kind0 = "encrypt"
    /\ last["x"].op = "decrypt"
    /\ last["x"].data = last["x"].cout0

\* C4: on one OFB engine x, c = x.encrypt(text) and then x.decrypt(c) on the
\* same x returns text (the module docstring's example).
C4_SameInstanceRoundTrip ==
    SameInstanceCase => last["x"].out = last["x"].cin0

\* the engine of a call and the call's state before
BlockCallOf(e) ==
    /\ made[e].ok
    /\ last[e].op # ""
    /\ last[e].pre.mode \in BlockModes

\* C5: in ECB, CBC and CFB a call with data whose length is no multiple of 8
\* raises the length error, returns nothing (no block is processed), and
\* leaves the IV and every other field of the engine as they were.
C5_LengthErrorAtomic ==
    \A e \in Engines :
        (BlockCallOf(e) /\ Len(last[e].data) % 8 # 0) =>
            /\ last[e].err = LengthError
            /\ last[e].out = <<>>
            /\ last[e].steps = <<>>
            /\ eng[e] = last[e].pre
            /\ rf[e] = last[e].rf0
            /\ ctr[e] = last[e].ctr0
            /\ cin[e] = last[e].cin0
            /\ cout[e] = last[e].cout0

\* a CBC engine that has encrypted a block is given 3 bytes
C5_Witness ==
    /\ BlockCallOf("x")
    /\ eng["x"].mode = MODE_CBC
    /\ cin["x"] = P
    /\ eng["x"].IV # IV1
    /\ last["x"].data = mS
    /\ last["x"].err = LengthError

\* the generator resumed k times from w: the bytes it yields, and the engine
\* and counter it leaves
RECURSIVE KeygenRun(_, _, _)
KeygenRun(w, k, ks) ==
    IF k = 0
    THEN [self |-> w.self, ctr |-> w.ctr, rf |-> w.rf, ks |-> ks]
    ELSE Only({ KeygenRun([self |-> g.self, ctr |-> g.ctr, rf |-> g.rf],
                          k - 1, Append(ks, g.byte)) : g \in {keygen(w)} })

StreamCallOf(e) ==
    /\ made[e].ok
    /\ last[e].op # ""
    /\ last[e].pre.mode \in StreamModes

\* C6: in OFB and CTR encrypt and decrypt, from the same state on the same
\* data of any length, return the same and leave the same state; no error
\* is raised; the output is as long as the data, byte i being data[i] XOR
\* the i-th byte the keystream generator yields from where it stood, and the
\* generator is left after exactly len(data) bytes.
C6_StreamSymmetric ==
    \A e \in Engines :
        StreamCallOf(e) =>
            \A w0 \in {[self |-> last[e].pre, ctr |-> last[e].ctr0,
                        rf |-> last[e].rf0]} :
            \A g \in {KeygenRun(w0, Len(last[e].data), <<>>)} :
                /\ last[e].err = NoErr
                /\ Len(last[e].out) = Len(last[e].data)
                /\ \A i \in DOMAIN last[e].data :
                       last[e].out[i] = XorBits(last[e].data[i], g.ks[i])
                /\ eng[e] = g.self
                /\ ctr[e] = g.ctr
                /\ encrypt(w0, last[e].data) = decrypt(w0, last[e].data)
                /\ encrypt(w0, last[e].data).self = eng[e]

\* a decrypt of 5 bytes in CTR that starts inside a keystream group; an
\* earlier call was of 1 byte
C6_Witness ==
    /\ StreamCallOf("x")
    /\ eng["x"].mode = MODE_CTR
    /\ last["x"].op = "decrypt"
    /\ last["x"].data = mT
    /\ Len(last["x"].cin0) = 1
    /\ last["x"].out # mT

\* the arguments new() was called with for x
ArgMode == get(made["x"].kwargs, "mode", NoneInt)
ArgIV == get(made["x"].kwargs, "IV", NoneBytes)
ArgCounter == get(made["x"].kwargs, "counter", NoneCounter)

ModeNames == {MODE_ECB, MODE_CBC, MODE_CFB, MODE_PGP, MODE_OFB, MODE_CTR}

\* new() was called with a 16-byte key and no mode, or a mode that is no
\* mode's name
NoModeCase ==
    /\ made["x"].done
    /\ Len(made["x"].key) = 16
    /\ ArgMode \notin ModeNames

BadArgs ==
    \/ Len(made["x"].key) # 16
    \/ ArgMode \in {MODE_CBC, MODE_CFB, MODE_OFB}
           /\ (ArgIV = NoneBytes \/ Len(ArgIV) # 8)
    \/ ArgMode = MODE_CTR /\ ArgCounter # CallableCounter
    \/ ArgMode = MODE_PGP

\* the arguments for which the claim says construction succeeds
GoodArgs ==
    /\ Len(made["x"].key) = 16
    /\ \/ ArgMode = MODE_ECB
       \/ ArgMode \in {MODE_CBC, MODE_CFB, MODE_OFB} /\ Len(ArgIV) = 8
       \/ ArgMode = MODE_CTR /\ ArgCounter = CallableCounter

\* C8: construction fails and yields no engine when the key is not 16 bytes
\* long, or the mode is CBC, CFB or OFB and the IV is absent or not 8 bytes
\* long, or the mode is CTR and the counter is absent or not callable, or
\* the mode is PGP; it succeeds with a 16-byte key for ECB, for CBC, CFB and
\* OFB with an 8-byte IV, and for CTR with a callable counter.  Either way
\* the counter has not been called, the round function has not been
\* evaluated, and an engine built holds its arguments and a keystream
\* generator that has not started.
C8_ConstructionEager ==
    made["x"].done =>
        /\ BadArgs => (~made["x"].ok /\ made["x"].err # NoErr
                          /\ eng["x"] = NoEngine)
        /\ GoodArgs => (made["x"].ok /\ made["x"].err = NoErr)
        /\ calls["x"] = 0 => (ctr["x"] = 0 /\ rf["x"] = 0)
        /\ (made["x"].ok /\ calls["x"] = 0) =>
               /\ eng["x"].key = made["x"].key
               /\ eng["x"].IV = ArgIV
               /\ eng["x"].gen = NewGen

\* OFB with a 16-byte key and an IV of 9 bytes has failed
C8_Witness ==
    /\ made["x"].done
    /\ Len(made["x"].key) = 16
    /\ ArgMode = MODE_OFB
    /\ Len(ArgIV) = 9
    /\ ~made["x"].ok
    /\ made["x"].err[1] = "ValueError"
    /\ eng["x"] = NoEngine
    /\ ctr["x"] = 0

\* C9: a CTR engine has called its counter ceil(N / 8) times when the data
\* of its calls sum to N bytes: not at construction, not in a call with no
\* data, and not in a call served by what the last refill left.
C9_CounterCalls ==
    \A e \in Engines :
        (made[e].ok /\ eng[e].mode = MODE_CTR) =>
            /\ ctr[e] = (Len(cin[e]) + 7) \div 8
            /\ calls[e] = 0 => ctr[e] = 0
            /\ (last[e].op # "" /\ last[e].data = <<>>) =>
                   ctr[e] = last[e].ctr0
            /\ (last[e].op # "" /\ Len(last[e].cin0) % 8 # 0
                  /\ Len(last[e].data) <= 8 - (Len(last[e].cin0) % 8)) =>
                   ctr[e] = last[e].ctr0

\* a call of 1 byte, then a call of 5 bytes served by what the refill of the
\* first call left: the counter was called once, and not in the second call
C9_Witness ==
    /\ made["x"].ok
    /\ eng["x"].mode = MODE_CTR
    /\ calls["x"] = 2
    /\ Len(last["x"].cin0) = 1
    /\ last["x"].data = mT
    /\ last["x"].ctr0 = 1
    /\ ctr["x"] = 1

\* 9 bytes in all, the last call of 1 byte starting a new keystream group:
\* the counter was called once before it and twice after
C9_SecondRefill ==
    /\ made["x"].ok
    /\ eng["x"].mode = MODE_CTR
    /\ Len(cin["x"]) = 9
    /\ last["x"].data = m1
    /\ last["x"].ctr0 = 1
    /\ ctr["x"] = 2

\* the block steps of both engines
AllSteps ==
    UNION { { trace[e][i] : i \in DOMAIN trace[e] } : e \in Engines }

\* C10: on an ECB engine every output block is the round function of the
\* key, the cycle count, the endianness and the input block alone, so equal
\* input blocks give equal output blocks within a call and across calls, and
\* the IV stays what the engine was built with; on a CBC or CFB engine equal
\* plaintext blocks encrypted under different chaining values give
\* different ciphertext blocks.
C10_EcbIndependence ==
    /\ \A e \in Engines :
           (made[e].ok /\ eng[e].mode = MODE_ECB) =>
               /\ eng[e].IV = get(made[e].kwargs, "IV", NoneBytes)
               /\ \A i \in DOMAIN trace[e] :
                      LET t == trace[e][i]
                          n == eng[e].rounds \div 2
                      IN /\ t.iv = eng[e].IV
                         /\ t.outb = IF t.op = "encrypt"
                                     THEN _encrypt(eng[e].key, t.inb, n,
                                                   eng[e].endian)
                                     ELSE _decrypt(eng[e].key, t.inb, n,
                                                   eng[e].endian)
    /\ (made["x"].ok /\ eng["x"].mode = MODE_ECB) =>
           \A t, u \in AllSteps :
               (t.op = u.op /\ t.inb = u.inb) => t.outb = u.outb
    /\ (made["x"].ok /\ eng["x"].mode \in {MODE_CBC, MODE_CFB}) =>
           \A t, u \in AllSteps :
               (t.op = "encrypt" /\ u.op = "encrypt" /\ t.inb = u.inb
                  /\ t.iv # u.iv) => t.outb # u.outb

\* an ECB engine built with an IV has encrypted the same block in two calls
C10_Witness ==
    /\ made["x"].ok
    /\ eng["x"].mode = MODE_ECB
    /\ eng["x"].IV = IV1
    /\ calls["x"] = 2
    /\ Len(trace["x"]) = 2
    /\ trace["x"][1].op = "encrypt" /\ trace["x"][2].op = "encrypt"
    /\ trace["x"][1].inb = P /\ trace["x"][2].inb = P
    /\ trace["x"][1].outb = trace["x"][2].outb
    /\ trace["x"][1].outb # P

\* a CBC engine has encrypted two equal blocks in one call, under two
\* chaining values
C10_CbcCase ==
    /\ made["x"].ok
    /\ eng["x"].mode = MODE_CBC
    /\ Len(trace["x"]) = 2
    /\ trace["x"][1].op = "encrypt" /\ trace["x"][2].op = "encrypt"
    /\ trace["x"][1].inb = trace["x"][2].inb
    /\ trace["x"][1].iv # trace["x"][2].iv
    /\ trace["x"][1].outb # trace["x"][2].outb

\* x and y, stream engines of the same configuration, have each encrypted
\* one message, their first
ReuseCase ==
    /\ SameConfig
    /\ eng["x"].mode \in StreamModes
    /\ calls["x"] = 1 /\ last["x"].op = "encrypt"
    /\ calls["y"] = 1 /\ last["y"].op = "encrypt"

Min(a, b) == IF a <= b THEN a ELSE b

\* C11: two fresh engines of the same key, rounds and endianness, both OFB
\* with the same IV or both CTR with counters returning the same values,
\* that encrypt p1 and p2 as their first data return c1 and c2 with
\* c1[i] XOR c2[i] = p1[i] XOR p2[i] at every position i both have.
C11_KeystreamReuse ==
    ReuseCase =>
        \A i \in 1..Min(Len(last["x"].data), Len(last["y"].data)) :
            XorBits(last["x"].out[i], last["y"].out[i])
                = XorBits(last["x"].data[i], last["y"].data[i])

\* two different messages of 9 bytes, so into the second keystream group
C11_Witness ==
    /\ ReuseCase
    /\ last["x"].data = m9
    /\ last["y"].data = n9
    /\ last["x"].out # last["y"].out
    /\ last["x"].out[9] = last["y"].out[9]

\* C12: every engine successfully constructed holds, in every state and every
\* mode, a key of 16 bytes and an IV that is absent (None) or 8 bytes long,
\* ECB and CTR engines given an IV argument included.
C12_LengthInvariant ==
    \A e \in Engines :
        made[e].ok =>
            /\ Len(eng[e].key) = 16
            /\ eng[e].IV # NoneBytes => Len(eng[e].IV) = 8

\* the fields of an engine that configure it
Config(self) ==
    [key |-> self.key, mode |-> self.mode, rounds |-> self.rounds,
     endian |-> self.endian, counter |-> self.counter]

\* C13: after any calls of encrypt and decrypt, successful or failing, in any
\* mode, the engine's key, mode, rounds, endianness and counter are those it
\* was constructed with: each call leaves them as it found them, and a
\* failing call leaves the whole engine as it found it.
C13_ConfigFrozen ==
    \A e \in Engines :
        made[e].ok =>
            /\ Config(eng[e]) = Config(__init__(made[e].key, made[e].kwargs).self)
            /\ last[e].op # "" => Config(eng[e]) = Config(last[e].pre)
            /\ last[e].err # NoErr => eng[e] = last[e].pre

\* a CTR engine after two calls, the second of which refilled the keystream
\* and so changed the IV
C13_Witness ==
    /\ made["x"].ok
    /\ eng["x"].mode = MODE_CTR
    /\ calls["x"] = 2
    /\ eng["x"].IV # last["x"].pre.IV
    /\ eng["x"].gen # last["x"].pre.gen
    /\ eng["x"].counter = CallableCounter
    /\ Config(eng["x"]) = Config(last["x"].pre)

\* a CBC engine after a call that failed
C13_FailedCall ==
    /\ made["x"].ok
    /\ eng["x"].mode = MODE_CBC
    /\ calls["x"] = 2
    /\ last["x"].err # NoErr
    /\ eng["x"].IV # IV1

ChainModes == {MODE_CBC, MODE_CFB}

\* the last 8 bytes of s
LastBlock(s) == SubSeq(s, Len(s) - block_size + 1, Len(s))

\* the last call on e was a successful call on a CBC or CFB engine
ChainCallOf(e) ==
    /\ made[e].ok
    /\ eng[e].mode \in ChainModes
    /\ last[e].op # ""
    /\ last[e].err = NoErr

\* x has only encrypted, and y has decrypted in one call all x returned
ChainPairCase ==
    /\ SameConfig
    /\ eng["x"].mode \in ChainModes
    /\ kind["x"] = "encrypt"
    /\ calls["y"] = 1 /\ last["y"].op = "decrypt" /\ last["y"].err = NoErr
    /\ last["y"].data = cout["x"]

\* C14: on a CBC or CFB engine a successful call on non-empty data leaves as
\* IV the call's last ciphertext block: the last block returned by encrypt,
\* the last block given to decrypt; a call on empty data leaves the IV as it
\* was; so an engine that encrypted and an engine of the same configuration
\* that decrypted the result hold the same IV.
C14_ChainingRule ==
    /\ \A e \in Engines :
           ChainCallOf(e) =>
               /\ (last[e].data # <<>> /\ last[e].op = "encrypt") =>
                      eng[e].IV = LastBlock(last[e].out)
               /\ (last[e].data # <<>> /\ last[e].op = "decrypt") =>
                      eng[e].IV = LastBlock(last[e].data)
               /\ last[e].data = <<>> => eng[e].IV = last[e].pre.IV
    /\ ChainPairCase => eng["y"].IV = eng["x"].IV

\* a CBC engine that decrypted two blocks, the IV now the second of them and
\* not what was returned
C14_Witness ==
    /\ ChainCallOf("x")
    /\ eng["x"].mode = MODE_CBC
    /\ last["x"].op = "decrypt"
    /\ Len(last["x"].data) = 16
    /\ eng["x"].IV = LastBlock(last["x"].data)
    /\ eng["x"].IV # LastBlock(last["x"].out)
    /\ eng["x"].IV # last["x"].pre.IV

\* a CFB engine that encrypted two blocks in two calls and its decrypting
\* peer hold the same IV, which is not the one they were built with
C14_PairCase ==
    /\ ChainPairCase
    /\ eng["x"].mode = MODE_CFB
    /\ calls["x"] = 2
    /\ Len(cout["x"]) = 16
    /\ eng["y"].IV = eng["x"].IV
    /\ eng["x"].IV # IV1

\* x, a block-mode engine, has made calls of one kind only, and y, built as
\* x was, has made one call of that kind on all the data x was given
SplitCase(modes) ==
    /\ SameConfig
    /\ eng["x"].mode \in modes
    /\ kind["x"] \in {"encrypt", "decrypt"}
    /\ calls["y"] = 1
    /\ last["y"].op = kind["x"]
    /\ last["y"].data = cin["x"]

\* C15: in ECB, CBC and CFB, the outputs of encrypt calls on block-aligned
\* messages m1, m2, ... on one engine, concatenated, equal the output of one
\* encrypt call on m1 || m2 || ... on a fresh engine of the same
\* configuration, and both engines end with the same IV; likewise for
\* decrypt.
C15_BlockStreaming ==
    SplitCase(BlockModes) =>
        /\ last["y"].err = NoErr
        /\ last["y"].out = cout["x"]
        /\ eng["y"].IV = eng["x"].IV

\* CBC: two encrypt calls of one block each against one call of two blocks
C15_Witness ==
    /\ SplitCase({MODE_CBC})
    /\ kind["x"] = "encrypt"
    /\ calls["x"] = 2
    /\ Len(last["x"].cin0) = 8
    /\ Len(last["x"].data) = 8
    /\ last["y"].out = cout["x"]
    /\ Len(cout["x"]) = 16
    /\ eng["y"].IV = eng["x"].IV

\* CFB: two decrypt calls of one block each against one call of two blocks
C15_DecryptCase ==
    /\ SplitCase({MODE_CFB})
    /\ kind["x"] = "decrypt"
    /\ calls["x"] = 2
    /\ Len(last["x"].cin0) = 8
    /\ Len(last["x"].data) = 8
    /\ last["y"].out = cout["x"]

\* x, a stream engine, has made calls, and y, built as x was, has made one
\* call on all the data x was given
StreamSplitCase ==
    /\ SameConfig
    /\ eng["x"].mode \in StreamModes
    /\ calls["y"] = 1
    /\ last["y"].data = cin["x"]

\* C16: in OFB and CTR an engine whose calls were given N bytes in all has
\* refilled the keystream ceil(N / 8) times and stands (N - 1) % 8 + 1 bytes
\* into the last refill, so exactly N keystream bytes are consumed; and the
\* outputs of its calls, whatever the lengths of their data, concatenated,
\* equal the output of one call on the concatenated data on a fresh engine
\* of the same configuration, which ends in the same state.
C16_StreamSplit ==
    /\ \A e \in Engines :
           (made[e].ok /\ eng[e].mode \in StreamModes) =>
               LET N == Len(cin[e])
               IN /\ Len(cout[e]) = N
                  /\ rf[e] = (N + 7) \div 8
                  /\ eng[e].gen.idx = IF N = 0 THEN 0 ELSE ((N - 1) % 8) + 1
                  /\ eng[e].gen.buf = IF N = 0 THEN <<>> ELSE eng[e].IV
    /\ StreamSplitCase =>
           /\ last["y"].out = cout["x"]
           /\ eng["y"] = eng["x"]
           /\ ctr["y"] = ctr["x"]

\* OFB: 4 bytes in earlier calls, then a call of 5 bytes that starts in the
\* middle of the first keystream group and ends in the second
C16_Witness ==
    /\ StreamSplitCase
    /\ eng["x"].mode = MODE_OFB
    /\ Len(last["x"].cin0) = 4
    /\ last["x"].data = mT
    /\ rf["x"] = 2 /\ last["x"].rf0 = 1
    /\ last["y"].out = cout["x"]
    /\ Len(cout["x"]) = 9

\* CTR: a call with no data between two calls with data
C16_EmptyPart ==
    /\ StreamSplitCase
    /\ eng["x"].mode = MODE_CTR
    /\ calls["x"] = 3
    /\ last["x"].data = mT
    /\ last["x"].cin0 = m1
    /\ Len(cout["x"]) = 6

\* RoundEncrypt of the engine e: the round function under e's key, cycle
\* count and endianness
RoundEncrypt(e, block) ==
    _encrypt(eng[e].key, block, eng[e].rounds \div 2, eng[e].endian)

\* RoundEncrypt applied j times to v
RECURSIVE RoundEncryptTimes(_, _, _)
RoundEncryptTimes(e, v, j) ==
    IF j = 0 THEN v
    ELSE Only({ RoundEncrypt(e, u) : u \in {RoundEncryptTimes(e, v, j - 1)} })

\* the keystream byte used at position i of e's data: data XOR output
KeystreamByte(e, i) == XorBits(cin[e][i], cout[e][i])

\* C17: on an OFB engine built with IV v, whatever the data of its calls,
\* the keystream byte at position i is byte (i - 1) % 8 + 1 of RoundEncrypt
\* applied ceil(i / 8) times to v, and after N bytes in all the IV is
\* RoundEncrypt applied ceil(N / 8) times to v (v itself when N = 0).
C17_OfbSelfChained ==
    \A e \in Engines :
        (made[e].ok /\ eng[e].mode = MODE_OFB) =>
            LET v == made[e].kwargs["IV"]
                N == Len(cin[e])
            IN /\ \A i \in 1..N :
                      KeystreamByte(e, i)
                          = RoundEncryptTimes(e, v, (i + 7) \div 8)[((i - 1) % 8) + 1]
               /\ eng[e].IV = RoundEncryptTimes(e, v, (N + 7) \div 8)

\* the endianness the round function is evaluated with in block processing
\* and in keystream refills alike: the engine's
RefillOf(e, src) == RoundEncrypt(e, src)

\* C18: every round-function evaluation of an engine uses the endianness the
\* engine was built with: the block steps of ECB, CBC and CFB, and the
\* keystream refills of OFB (from the IV) and CTR (from the counter's
\* value), so that the IV a stream engine holds after its first refill is
\* the round function, under the engine's endianness, of the IV it was
\* built with (OFB) or of the counter's first value (CTR).
C18_EndianUniform ==
    \A e \in Engines :
        made[e].ok =>
            /\ eng[e].endian = get(made[e].kwargs, "endian", "!")
            /\ eng[e].mode \in BlockModes =>
                  \A i \in DOMAIN trace[e] :
                      LET t == trace[e][i]
                          n == eng[e].rounds \div 2
                          en == eng[e].endian
                          k == eng[e].key
                      IN t.outb =
                           IF eng[e].mode = MODE_ECB
                           THEN IF t.op = "encrypt"
                                THEN _encrypt(k, t.inb, n, en)
                                ELSE _decrypt(k, t.inb, n, en)
                           ELSE IF eng[e].mode = MODE_CBC
                           THEN IF t.op = "encrypt"
                                THEN _encrypt(k, xor_strings(t.iv, t.inb), n, en)
                                ELSE xor_strings(t.iv, _decrypt(k, t.inb, n, en))
                           ELSE xor_strings(_encrypt(k, t.iv, n, en), t.inb)
            /\ (eng[e].mode = MODE_OFB /\ rf[e] = 1) =>
                  eng[e].IV = RefillOf(e, made[e].kwargs["IV"])
            /\ (eng[e].mode = MODE_CTR /\ rf[e] = 1) =>
                  eng[e].IV = RefillOf(e, counter_call(1))

\* ------------------------------------------------------------------------
\* Two threads calling encrypt / decrypt on block-mode engines.  The engine
\* takes no lock: per block a thread reads self.IV, and later assigns it;
\* another thread may run in between.
\* ------------------------------------------------------------------------

\* thread t calls e.encrypt(data) or e.decrypt(data): _block, then the loop.
\* after records the threads whose call had returned by then.
ThreadStart(t, e, op, data) ==
    /\ th[t].pc = "idle"
    /\ made[e].ok
    /\ \E blocks \in {_block(data)} :
          th' = [th EXCEPT ![t] =
                    [pc |-> IF blocks.ok /\ Len(blocks.l) > 0
                            THEN "read" ELSE "done",
                     e |-> e, op |-> op, data |-> data, blocks |-> blocks.l,
                     i |-> 1, iv |-> NoneBytes, out |-> <<>>,
                     after |-> {u \in Threads : th[u].pc = "done"}]]
    /\ UNCHANGED <<eng, made, ctr, rf, calls, kind, cin, cout, trace, last, rfv>>

\* the loop body's read of self.IV for block i
ThreadRead(t) ==
    /\ th[t].pc = "read"
    /\ th' = [th EXCEPT ![t].iv = eng[th[t].e].IV, ![t].pc = "write"]
    /\ UNCHANGED <<eng, made, ctr, rf, calls, kind, cin, cout, trace, last, rfv>>

\* IV is kept on the class: the assignment reaches every engine
ThreadWriteClassIV(t) ==
    /\ th[t].pc = "write"
    /\ \E r \in {BlockStep(th[t].op, [eng[th[t].e] EXCEPT !.IV = th[t].iv],
                          th[t].blocks[th[t].i])} :
          /\ eng' = [e \in Engines |->
                        IF made[e].ok THEN [eng[e] EXCEPT !.IV = r.IV]
                        ELSE eng[e]]
          /\ rf' = [rf EXCEPT ![th[t].e] = @ + 1]
          /\ th' = [th EXCEPT ![t].out = @ \o r.ecd,
                              ![t].i = @ + 1,
                              ![t].pc = IF th[t].i = Len(th[t].blocks)
                                        THEN "done" ELSE "read"]
    /\ UNCHANGED <<made, ctr, calls, kind, cin, cout, trace, last, rfv>>

\* the rest of the loop body for block i: the block is computed with the IV
\* read, self.IV is assigned, the output block is appended
ThreadWrite(t) ==
    /\ th[t].pc = "write"
    /\ \E r \in {BlockStep(th[t].op, [eng[th[t].e] EXCEPT !.IV = th[t].iv],
                          th[t].blocks[th[t].i])} :
          /\ eng' = [eng EXCEPT ![th[t].e].IV = r.IV]
          /\ rf' = [rf EXCEPT ![th[t].e] = @ + 1]
          /\ th' = [th EXCEPT ![t].out = @ \o r.ecd,
                              ![t].i = @ + 1,
                              ![t].pc = IF th[t].i = Len(th[t].blocks)
                                        THEN "done" ELSE "read"]
    /\ UNCHANGED <<made, ctr, calls, kind, cin, cout, trace, last, rfv>>

\* CBC and CFB engines, and the data of the threads' calls
ThreadKwargs ==
    { [mode |-> m, IV |-> IV1, rounds |-> 3] : m \in {MODE_CBC, MODE_CFB} }

ThreadData == {P, P \o IV1}

ThreadOps == {"encrypt", "decrypt"}

\* x is built, and y as x was; thread a calls x; thread b calls x or y
NextThreads ==
    \/ \E kw \in ThreadKwargs : New("x", Key1, kw)
    \/ made["x"].ok /\ New("y", made["x"].key, made["x"].kwargs)
    \/ \E op \in ThreadOps, data \in ThreadData : ThreadStart("a", "x", op, data)
    \/ \E e \in Engines, op \in ThreadOps, data \in ThreadData :
           ThreadStart("b", e, op, data)
    \/ \E t \in Threads : ThreadRead(t)
    \/ \E t \in Threads : ThreadWrite(t)

SpecThreads == Init /\ [][NextThreads]_vars

\* both threads' calls have returned
ThreadsDone == \A t \in Threads : th[t].pc = "done"

\* what the two calls returned and the IV engine e holds
Outcome(e) == [a |-> th["a"].out, b |-> th["b"].out, IV |-> eng[e].IV]

\* the engine as new() returned it
Fresh(e) ==
    [self |-> __init__(made[e].key, made[e].kwargs).self, ctr |-> 0, rf |-> 0]

\* thread t's call made alone on a fresh engine e
Alone(t, e) == Cipher(th[t].op, Fresh(e), th[t].data)

\* the outcome of t's call and then u's call, one after the other, on x
Serial(t, u) ==
    LET r1 == Alone(t, "x")
        r2 == Cipher(th[u].op, [self |-> r1.self, ctr |-> r1.ctr, rf |-> r1.rf],
                     th[u].data)
    IN [th |-> [v \in Threads |-> IF v = t THEN r1.out ELSE r2.out],
        IV |-> r2.self.IV]

SerialOutcomes ==
    { [a |-> s.th["a"], b |-> s.th["b"], IV |-> s.IV] :
          s \in {Serial("a", "b"), Serial("b", "a")} }

\* both calls were made on x
Shared == th["a"].e = "x" /\ th["b"].e = "x"

\* C19 (the safe part): when the two threads' calls are on two engines, each
\* call returns, and leaves as its engine's IV, what it returns and leaves
\* when made alone, however the threads interleave; and when they are on one
\* engine and one call began after the other had returned, the outcome is
\* that of the serial order.
C19_UnsharedIsSerial ==
    ThreadsDone =>
        /\ ~Shared =>
               /\ th["a"].out = Alone("a", "x").out
               /\ eng["x"].IV = Alone("a", "x").self.IV
               /\ th["b"].out = Alone("b", "y").out
               /\ eng["y"].IV = Alone("b", "y").self.IV
        /\ (Shared /\ "a" \in th["b"].after) =>
               Outcome("x") = [a |-> Serial("a", "b").th["a"],
                               b |-> Serial("a", "b").th["b"],
                               IV |-> Serial("a", "b").IV]
        /\ (Shared /\ "b" \in th["a"].after) =>
               Outcome("x") \in SerialOutcomes

\* C19 (the unsafe part): two encrypt calls on one CBC engine have returned
\* and what they returned and the IV left are those of neither serial order.
C19_Witness ==
    /\ ThreadsDone
    /\ Shared
    /\ eng["x"].mode = MODE_CBC
    /\ th["a"].op = "encrypt" /\ th["b"].op = "encrypt"
    /\ Outcome("x") \notin SerialOutcomes

\* the same with two decrypt calls on one CFB engine
C19_DecryptCase ==
    /\ ThreadsDone
    /\ Shared
    /\ eng["x"].mode = MODE_CFB
    /\ th["a"].op = "decrypt" /\ th["b"].op = "decrypt"
    /\ Outcome("x") \notin SerialOutcomes

\* two threads on two engines that interleaved: b read between a's blocks
C19_UnsharedCase ==
    /\ ThreadsDone
    /\ ~Shared
    /\ th["a"].after = {} /\ th["b"].after = {}
    /\ Len(th["a"].out) = 16 /\ Len(th["b"].out) = 16

\* ------------------------------------------------------------------------
\* The round formulas with every operation reduced modulo 2^32
\* ------------------------------------------------------------------------

\* x mod 2^32
Mod32(a) == <<a[1] % 65536, a[2] % 65536>>

\* the word w is in [0, 2^32)
InRange32(w) == w[1] \in 0..65535 /\ w[2] \in 0..65535

MixMod(v, sum, ki) ==
    Xor(Mod32(Add(Xor(Mod32(Shl4(v)), Shr5(v)), v)), Mod32(Add(sum, ki)))

EncCycleMod(k, st) ==
    LET v0 == Mod32(Add(st[1], MixMod(st[2], st[3], k[(st[3][2] % 4) + 1])))
        sum == Mod32(Add(st[3], delta))
        v1 == Mod32(Add(st[2], MixMod(v0, sum, k[((sum[2] \div 2048) % 4) + 1])))
    IN <<v0, v1, sum>>

DecCycleMod(k, st) ==
    LET v1 == Mod32(Sub(st[2], MixMod(st[1], st[3],
                                      k[((st[3][2] \div 2048) % 4) + 1])))
        sum == Mod32(Sub(st[3], delta))
        v0 == Mod32(Sub(st[1], MixMod(v1, sum, k[(sum[2] % 4) + 1])))
    IN <<v0, v1, sum>>

RECURSIVE LoopMod(_, _, _, _)
LoopMod(op, k, st, n) ==
    IF n <= 0 THEN st
    ELSE IF n = 1
    THEN IF op = "encrypt" THEN EncCycleMod(k, st) ELSE DecCycleMod(k, st)
    ELSE Only({ LoopMod(op, k, mid, n - (n \div 2)) :
                mid \in {LoopMod(op, k, st, n \div 2)} })

\* the state <<v0, v1, sum>> a call starts its loop with
StartState(c) ==
    <<unpackL(c.endian, c.block, 1), unpackL(c.endian, c.block, 5),
      IF c.op = "encrypt" THEN <<0, 0>> ELSE AndMask(MulNat(delta, c.n))>>

StartStateMod(c) ==
    <<unpackL(c.endian, c.block, 1), unpackL(c.endian, c.block, 5),
      IF c.op = "encrypt" THEN <<0, 0>> ELSE Mod32(MulNat(delta, c.n))>>

\* the state after j passes of the loop of the call c
StateAfter(c, j) ==
    IF c.op = "encrypt"
    THEN EncLoop(unpackKey(c.endian, c.key), StartState(c), j)
    ELSE DecLoop(unpackKey(c.endian, c.key), StartState(c), j)

StateAfterMod(c, j) ==
    LoopMod(c.op, unpackKey(c.endian, c.key), StartStateMod(c), j)

\* C20: _encrypt and _decrypt, which mask only the result of each half-round
\* and of each update of sum, return what the round formulas with every
\* operation reduced modulo 2^32 give, for every key, block, cycle count and
\* endianness tried; and after each pass of the loop (so after each
\* half-round: a pass leaves the v0, v1 and sum its half-rounds set) v0, v1
\* and sum are in [0, 2^32).
C20_ModularEquivalence ==
    rfv.cur.op # "" =>
        /\ \A r \in {StateAfterMod(rfv.cur, rfv.cur.n)} :
              rfv.cur.out = packL(rfv.cur.endian, r[1]) \o packL(rfv.cur.endian, r[2])
        /\ \A i \in DOMAIN rfv.cur.out : rfv.cur.out[i] \in 0..255
        /\ rfv.prev.op = "" =>
              \A j \in 0..rfv.cur.n :
                  \A r \in {StateAfter(rfv.cur, j)} :
                      /\ InRange32(r[1]) /\ InRange32(r[2]) /\ InRange32(r[3])
                      /\ r = StateAfterMod(rfv.cur, j)

\* a call of _encrypt at 32 cycles whose first half-round has intermediate
\* terms of more than 32 bits: v1 << 4, and ((v1 << 4) ^ (v1 >> 5)) + v1
C20_Witness ==
    /\ rfv.cur.op = "encrypt"
    /\ rfv.cur.n = 32
    /\ LET st == StartState(rfv.cur)
       IN /\ ~InRange32(Shl4(st[2]))
          /\ ~InRange32(Add(Xor(Shl4(st[2]), Shr5(st[2])), st[2]))
    /\ rfv.cur.out # rfv.cur.block

\* a call of _decrypt whose first half-round subtracts below zero
C20_DecryptCase ==
    /\ rfv.cur.op = "decrypt"
    /\ rfv.cur.n = 32
    /\ LET st == StartState(rfv.cur)
           k == unpackKey(rfv.cur.endian, rfv.cur.key)
       IN Sub(st[2], Mix(st[1], st[3], KeyHi(k, st[3])))[1] < 0

====
